---------------------------- MODULE Spec2Model ----------------------------
(***************************************************************************)
(* ReSubPlot: re-composition of already rendered figures into one grid     *)
(* figure (src/src/ReSubPlot/layout.py, src/src/ReSubPlot/plotting_funcs.py)*)
(*                                                                         *)
(* A figure is the sequence of its axes (fig.axes).  Indices stored in the *)
(* grid index `tens` are the 0-based Python indices into fig.axes, so the  *)
(* axes numbered n is fig[n + 1].  Grid rows and columns are positions of  *)
(* TLA+ sequences and therefore count from 1 (Python row r is row r + 1).  *)
(***************************************************************************)
EXTENDS Integers, Sequences, FiniteSets, TLC

\* Largest number of figures in the grid mat_fig (rows * columns).
MaxCells == 4
\* Largest number of points of a Line2D, largest coordinate, lines per axes.
MaxPts == 3
MaxVal == 1
MaxLines == 2

VARIABLES
    mat_fig,      \* argument: the grid (rows of source figures)
    list_sites,   \* argument: the column labels
    fig,          \* the composed figure: its axes list fig.axes
    tens,         \* the grid index returned by create_figure
    pc,           \* the call master_plot makes next
    calls,        \* the calls master_plot has completed, in order
    save_plots,   \* argument save_plots, read by master_plot's last statement
    files,        \* the files written by savefig
    old_lines,    \* recover_Line2D: old_ax.get_lines()
    new_lines,    \* recover_Line2D: the lines drawn on new_ax so far
    lpc           \* recover_Line2D: position in the loop over the lines

vars == <<mat_fig, list_sites, fig, tens, pc, calls, save_plots, files,
          old_lines, new_lines, lpc>>

---------------------------------------------------------------------------
(* Generic helpers *)

Min(S) == CHOOSE m \in S : \A k \in S : m <= k
Max(S) == CHOOSE m \in S : \A k \in S : m >= k
Range(s) == {s[k] : k \in DOMAIN s}
Last(s) == s[Len(s)]
\* Python's s[::-1]
Reversed(s) == [k \in 1..Len(s) |-> s[Len(s) + 1 - k]]
RECURSIVE Flat(_)
\* [j for i in s for j in i]
Flat(s) == IF s = <<>> THEN <<>> ELSE Head(s) \o Flat(Tail(s))

---------------------------------------------------------------------------
(* Source figures.  `share` is how an axes of the source figure is joined  *)
(* to the figure's first axes: "main" is the first axes itself, "x" shares *)
(* the x axis with it (a twinx), "y" shares the y axis (a twiny), "xy"     *)
(* shares both and "none" shares neither.  Axes sharing an axis with the   *)
(* first axes have its limits on that axis.  FigEmpty is a figure without  *)
(* axes, FigSubplots one made of two independent subplots, FigSharexy one  *)
(* made of two subplots with sharex and sharey.                            *)

SrcTitle == "src"
SrcYLabel == "y"

SrcAxes(share, xlim, ylim) ==
    [share |-> share, xlim |-> xlim, ylim |-> ylim,
     ylabel |-> SrcYLabel, title |-> SrcTitle]

FigSingle  == << SrcAxes("main", <<0, 2>>, <<1, 2>>) >>
FigTwinx   == << SrcAxes("main", <<0, 1>>, <<0, 2>>),
                SrcAxes("x",    <<0, 1>>, <<1, 3>>) >>
FigTwiny   == << SrcAxes("main", <<1, 2>>, <<0, 3>>),
                SrcAxes("y",    <<2, 3>>, <<0, 3>>) >>
FigTwinx2  == << SrcAxes("main", <<2, 3>>, <<1, 3>>),
                SrcAxes("x",    <<2, 3>>, <<0, 1>>),
                SrcAxes("x",    <<2, 3>>, <<2, 3>>) >>
FigSubplots == << SrcAxes("main", <<0, 1>>, <<0, 1>>),
                 SrcAxes("none", <<0, 3>>, <<0, 3>>) >>
FigSharexy == << SrcAxes("main", <<1, 3>>, <<0, 1>>),
                SrcAxes("xy",   <<1, 3>>, <<0, 1>>) >>
FigEmpty   == << >>

SrcFigures == {FigSingle, FigTwinx, FigTwiny, FigTwinx2, FigSharexy,
               FigSubplots, FigEmpty}

\* The shapes (rows, columns) of a grid holding at most MaxCells figures.
Shapes == {s \in (1..MaxCells) \X (1..MaxCells) : s[1] * s[2] <= MaxCells}

---------------------------------------------------------------------------
(* The axes of the composed figure *)

\* A fresh axes, the n-th of the figure (fig.add_subplot, or a twin before
\* its limits are joined).  `sharex` / `sharey` name the group of axes whose
\* x / y limits move together; `drawn_for` records the mat_fig position of
\* the figure that was being redrawn when the axes was created.
NewAxes(n, at) ==
    [xlim |-> <<0, 1>>, ylim |-> <<0, 1>>, sharex |-> n, sharey |-> n,
     ylabel |-> "", yticklabels |-> TRUE, title |-> "",
     legend |-> [shown |-> FALSE, handles |-> <<>>],
     position |-> <<0, 0>>, drawn_for |-> at]

\* fig.add_subplot(nrows, ncols, index): one new axes at the end of fig.axes
add_subplot(axs, at) == Append(axs, NewAxes(Len(axs), at))

\* new_ax_og.twinx(): a new axes sharing the x axis of axes og
twinx(axs, og) ==
    Append(axs, [NewAxes(Len(axs), axs[og + 1].drawn_for) EXCEPT
                    !.sharex = axs[og + 1].sharex,
                    !.xlim = axs[og + 1].xlim])

\* new_ax_og.twiny(): a new axes sharing the y axis of axes og
twiny(axs, og) ==
    Append(axs, [NewAxes(Len(axs), axs[og + 1].drawn_for) EXCEPT
                    !.sharey = axs[og + 1].sharey,
                    !.ylim = axs[og + 1].ylim])

\* ax.set_xlim(lo, hi) on axes n: every axes sharing its x axis follows
set_xlim(axs, n, lim) ==
    [k \in 1..Len(axs) |->
        IF axs[k].sharex = axs[n + 1].sharex
        THEN [axs[k] EXCEPT !.xlim = lim] ELSE axs[k]]

\* ax.set_ylim(lo, hi) on axes n: every axes sharing its y axis follows
set_ylim(axs, n, lim) ==
    [k \in 1..Len(axs) |->
        IF axs[k].sharey = axs[n + 1].sharey
        THEN [axs[k] EXCEPT !.ylim = lim] ELSE axs[k]]

\* sharing_axis(new_ax_og, old_fig, old_ax) for the k-th axes of old_fig.
\* With neither axis shared new_ax is never bound and the return raises
\* UnboundLocalError.
sharing_axis(axs, new_ax_og, old_fig, k) ==
    IF k = 1
    THEN [raised |-> FALSE, axes |-> axs, new_ax |-> new_ax_og]
    ELSE LET joined_x == old_fig[k].share \in {"x", "xy"}
             joined_y == old_fig[k].share \in {"y", "xy"}
             a1 == IF joined_x THEN twinx(axs, new_ax_og) ELSE axs
             a2 == IF joined_y THEN twiny(a1, new_ax_og) ELSE a1
         IN  [raised |-> ~joined_x /\ ~joined_y, axes |-> a2,
              new_ax |-> Len(a2) - 1]

\* recover_axis_formatting(old_ax, new_ax): labels, title and limits
recover_axis_formatting(axs, old_ax, new_ax) ==
    LET a1 == [axs EXCEPT ![new_ax + 1].ylabel = old_ax.ylabel,
                          ![new_ax + 1].title = old_ax.title]
    IN  set_ylim(set_xlim(a1, new_ax, old_ax.xlim), new_ax, old_ax.ylim)

\* recover_legend(old_ax, new_ax): new_ax.legend(handles, labels) always
\* creates a legend; its handles are those of the axes itself
recover_legend(axs, new_ax) ==
    [axs EXCEPT ![new_ax + 1].legend =
                    [shown |-> TRUE, handles |-> <<new_ax>>]]

RECURSIVE plot_axes(_, _, _, _)
\* the loop of plot_same_new_figure from the k-th axes of old_fig on
plot_axes(st, old_fig, new_ax_og, k) ==
    IF k > Len(old_fig) THEN st
    ELSE LET s == sharing_axis(st.axes, new_ax_og, old_fig, k)
         IN  IF s.raised THEN [raised |-> TRUE, axes |-> s.axes]
             ELSE plot_axes(
                    [raised |-> FALSE,
                     axes |-> recover_legend(
                                recover_axis_formatting(s.axes, old_fig[k],
                                                        s.new_ax),
                                s.new_ax)],
                    old_fig, new_ax_og, k + 1)

\* plot_same_new_figure(old_fig, new_ax_og)
plot_same_new_figure(axs, old_fig, new_ax_og) ==
    plot_axes([raised |-> FALSE, axes |-> axs], old_fig, new_ax_og, 1)

RECURSIVE print_cells(_, _, _)
\* the two nested loops of print_into_row_subplots, from cell q (= i*ncols+j)
\* on; st.cells collects the lists vec in the order they are appended.
\* set_position puts the axes of the cell at left (j+pad)/ncols and bottom
\* (i+pad)/nrows: the position is kept as the slot <<j, i>>, the bottom
\* offset growing with i.
print_cells(temp_fig_list, st, q) ==
    LET nrows == Len(temp_fig_list)
        ncols == Len(temp_fig_list[1])
    IN  IF q = nrows * ncols THEN st
        ELSE LET i == q \div ncols
                 j == q % ncols
                 f == temp_fig_list[i + 1][j + 1]
                 num_ax == Len(st.axes)
                 p == plot_same_new_figure(add_subplot(st.axes, f.at),
                                           f.fig, num_ax)
                 num_new_ax == Len(p.axes) - num_ax
                 vec == [n \in 1..num_new_ax |-> num_ax + n - 1]
                 placed == [k \in 1..Len(p.axes) |->
                              IF k > num_ax
                              THEN [p.axes[k] EXCEPT !.position = <<j, i>>]
                              ELSE p.axes[k]]
             IN  IF p.raised
                 THEN [raised |-> TRUE, axes |-> p.axes, cells |-> st.cells]
                 ELSE print_cells(temp_fig_list,
                                  [raised |-> FALSE, axes |-> placed,
                                   cells |-> Append(st.cells, vec)],
                                  q + 1)

\* print_into_row_subplots returning tens as collected, not reversed
reverse_tens_missing(t) == t

\* tens = tens[::-1], the last statement of print_into_row_subplots
reverse_tens(t) == Reversed(t)

\* print_into_row_subplots(temp_fig_list, new_fig, pad) on an empty new_fig
print_into_row_subplots(temp_fig_list) ==
    LET nrows == Len(temp_fig_list)
        ncols == Len(temp_fig_list[1])
        st == print_cells(temp_fig_list,
                          [raised |-> FALSE, axes |-> <<>>, cells |-> <<>>], 0)
        t == [i \in 1..nrows |->
                [j \in 1..ncols |-> st.cells[(i - 1) * ncols + j]]]
    IN  IF st.raised
        THEN [raised |-> TRUE, axes |-> <<>>, tens |-> <<>>]
        ELSE [raised |-> FALSE, axes |-> st.axes, tens |-> reverse_tens(t)]

\* np.array(mat_fig) flattened in row order, each figure kept with its
\* position in mat_fig
Tagged(m) ==
    Flat([r \in 1..Len(m) |->
            [c \in 1..Len(m[r]) |-> [fig |-> m[r][c], at |-> <<r, c>>]]])

\* create_figure drawing the rows in the order of mat_fig
reverse_rows_missing(t) == t

\* temp_fig_list = temp_fig_list[::-1] in create_figure
reverse_rows(t) == Reversed(t)

\* create_figure(mat_fig, list_sites, pad): reshape(-1, len(list_sites))
\* raises ValueError unless the number of figures is a multiple of it
create_figure(m, sites) ==
    LET flat == Tagged(m)
        ncols == Len(sites)
    IN  IF ncols = 0 \/ Len(flat) % ncols # 0
        THEN [raised |-> TRUE, axes |-> <<>>, tens |-> <<>>]
        ELSE LET nrows == Len(flat) \div ncols
                 reshaped == [i \in 1..nrows |->
                                [j \in 1..ncols |-> flat[(i - 1) * ncols + j]]]
             IN  print_into_row_subplots(reverse_rows(reshaped))


---------------------------------------------------------------------------
(* The layout passes of master_plot *)

\* legends_only_last_subplot that only adds the collected legend and
\* removes none
legends_row_keep_others(axs, mat) ==
    [k \in 1..Len(axs) |->
        IF k - 1 = Last(Last(mat))
        THEN [axs[k] EXCEPT !.legend =
                 [shown |-> TRUE, handles |-> Last(mat)]]
        ELSE axs[k]]

\* One row `mat` of legends_only_last_subplot: the axes numbered
\* flat_mat[0] .. flat_mat[-1] are visited in order; the handles of the axes
\* of the last cell are collected and the last axes of the last cell gets
\* ax.legend(handles, labels); every other visited axes loses its legend.
legends_row(axs, mat) ==
    LET flat_mat == Flat(mat)
        lo == flat_mat[1]
        hi == Last(flat_mat)
        collected(n) == SelectSeq([q \in 1..(n - lo + 1) |-> lo + q - 1],
                                  LAMBDA x : x \in Range(Last(mat)))
    IN  [k \in 1..Len(axs) |->
            LET n == k - 1
            IN  IF n < lo \/ n > hi THEN axs[k]
                ELSE IF n \in Range(Last(mat)) /\ n = Last(Last(mat))
                THEN [axs[k] EXCEPT !.legend =
                         [shown |-> TRUE, handles |-> collected(n)]]
                ELSE [axs[k] EXCEPT !.legend =
                         [shown |-> FALSE, handles |-> <<>>]]]

RECURSIVE legends_rows(_, _, _)
legends_rows(axs, t, r) ==
    IF r > Len(t) THEN axs ELSE legends_rows(legends_row(axs, t[r]), t, r + 1)

\* legends_only_last_subplot(fig, tens)
legends_only_last_subplot(axs, t) == legends_rows(axs, t, 1)

\* The axes whose y label and y tick labels labels_only_last_subplot blanks:
\* in each row `mat`, the first axes (num_ax == 0) of every cell but the
\* first and the second axes (num_ax == 1) of every cell but the last.
\* `row` is the source's name for the 0-based position of the cell in mat.
blanked(t) ==
    UNION {UNION {{t[m][row + 1][num_ax + 1] :
                      num_ax \in {a \in 0..(Len(t[m][row + 1]) - 1) :
                                    \/ row > 0 /\ a = 0
                                    \/ row < Len(t[m]) - 1 /\ a = 1}} :
                  row \in 0..(Len(t[m]) - 1)} :
           m \in 1..Len(t)}

\* labels_only_last_subplot(fig, tens)
labels_only_last_subplot(axs, t) ==
    [k \in 1..Len(axs) |->
        IF (k - 1) \in blanked(t)
        THEN [axs[k] EXCEPT !.ylabel = "", !.yticklabels = FALSE]
        ELSE axs[k]]

RECURSIVE set_ylim_each(_, _, _, _)
\* for m in mat: fig.axes[m[j]].set_ylim(y_min_all, y_max_all)
set_ylim_each(axs, mat, j, lim) ==
    IF mat = <<>> THEN axs
    ELSE set_ylim_each(set_ylim(axs, Head(mat)[j + 1], lim), Tail(mat), j, lim)

RECURSIVE ylims_positions(_, _, _, _)
\* the loop over j in range(np.array(mat).shape[1]) of set_common_ylims
ylims_positions(axs, mat, j, n) ==
    IF j = n THEN axs
    ELSE LET picked == {m[j + 1] : m \in Range(mat)}
             y_min_all == Min({axs[i + 1].ylim[1] : i \in picked})
             y_max_all == Max({axs[i + 1].ylim[2] : i \in picked})
         IN  ylims_positions(
                set_ylim_each(axs, mat, j, <<y_min_all, y_max_all>>),
                mat, j + 1, n)

\* np.array(mat) is a 2-D array only when every cell of mat lists the same
\* number of axes; otherwise np.array(mat).shape[1] raises (ValueError for
\* the inhomogeneous shape, or IndexError on the 1-D array of lists)
is_rectangular(mat) == \A a, b \in Range(mat) : Len(a) = Len(b)

RECURSIVE ylims_rows(_, _, _)
ylims_rows(axs, t, r) ==
    IF r > Len(t) THEN [raised |-> FALSE, axes |-> axs]
    ELSE IF ~is_rectangular(t[r]) THEN [raised |-> TRUE, axes |-> axs]
    ELSE ylims_rows(ylims_positions(axs, t[r], 0, Len(t[r][1])), t, r + 1)

\* set_common_ylims(fig, tens)
set_common_ylims(axs, t) == ylims_rows(axs, t, 1)

RECURSIVE set_xlim_each(_, _, _)
\* for i in [r for rr in row for r in rr]: fig.axes[i].set_xlim(xmin, xmax)
set_xlim_each(axs, idx, lim) ==
    IF idx = <<>> THEN axs
    ELSE set_xlim_each(set_xlim(axs, Head(idx), lim), Tail(idx), lim)

RECURSIVE sharex_rows_from(_, _, _, _)
sharex_rows_from(axs, t, lims, nrow) ==
    IF nrow > Len(t) THEN axs
    ELSE sharex_rows_from(set_xlim_each(axs, Flat(t[nrow]), lims[nrow]),
                          t, lims, nrow + 1)

\* sharex_rows(fig, tens): the limits of every row are read first, then set
sharex_rows(axs, t) ==
    LET lims == [r \in 1..Len(t) |->
                    {axs[i + 1].xlim : i \in Range(Flat(t[r]))}]
        xminmax == [r \in 1..Len(t) |->
                    <<Min({l[1] : l \in lims[r]}), Max({l[2] : l \in lims[r]})>>]
    IN  sharex_rows_from(axs, t, xminmax, 1)

\* sharex_cols passing tens on as it is
tens_untransposed(t) == t

\* list(map(list, zip(*tens)))
tens_transpose(t) ==
    [c \in 1..Min({Len(t[r]) : r \in 1..Len(t)}) |->
        [r \in 1..Len(t) |-> t[r][c]]]

\* sharex_cols(fig, tens)
sharex_cols(axs, t) == sharex_rows(axs, tens_transpose(t))

\* set_common_xlims whose 'all' branch stops after the row pass
set_common_xlims_rows_only(axs, t, sharex) ==
    IF sharex = "col" THEN sharex_rows(axs, tens_transpose(t))
    ELSE IF sharex \in {"row", "True", "all"} THEN sharex_rows(axs, t)
    ELSE axs

\* The values of the argument sharex; "True" and "False" are the booleans
SharexValues == {"False", "none", "True", "all", "row", "col"}

\* set_common_xlims(fig, tens, sharex)
set_common_xlims(axs, t, sharex) ==
    IF sharex = "row" THEN sharex_rows(axs, t)
    ELSE IF sharex = "col" THEN sharex_cols(axs, t)
    ELSE IF sharex = "True" \/ sharex = "all"
    THEN sharex_cols(sharex_rows(axs, t), t)
    ELSE axs

\* The axes add_column_titles titles: zip pairs the first axes of the cells
\* of tens[0] with list_sites and stops at the shorter of the two
titled(t, sites) ==
    [c \in 1..Min({Len(t[1]), Len(sites)}) |-> t[1][c][1]]

\* add_column_titles(fig, tens, list_sites)
add_column_titles(axs, t, sites) ==
    [k \in 1..Len(axs) |->
        IF \E c \in DOMAIN titled(t, sites) : titled(t, sites)[c] = k - 1
        THEN [axs[k] EXCEPT !.title =
                 sites[CHOOSE c \in DOMAIN titled(t, sites) :
                          titled(t, sites)[c] = k - 1]]
        ELSE axs[k]]

\* align_ylabels(fig, tens): aligns the label positions of the first axes
\* and of the last axes of the rows; no limit, label, title or legend changes
align_ylabels(axs, t) == axs

---------------------------------------------------------------------------
(* recover_Line2D *)

LineLabel == "data"
LineColor == "C0"
LineStyle == "--"
LineWidth == "2.0"
\* the line width Axes.plot uses when none is passed (rcParams)
DefaultLineWidth == "lines.linewidth"

\* the coordinate sequences of a line of n points
Coords(n) == [1..n -> 0..MaxVal]

\* the Line2D objects of a source axes
Line2D ==
    {[xdata |-> x, ydata |-> y, label |-> LineLabel, color |-> LineColor,
      linestyle |-> LineStyle, linewidth |-> LineWidth] :
        <<x, y>> \in UNION {Coords(n) \X Coords(n) : n \in 0..MaxPts}}

\* new_ax.axhline(y=..., color, linestyle, linewidth, label): a line from
\* x = 0 to x = 1 (in axes coordinates) at height y
axhline(y, line) ==
    [xdata |-> <<0, 1>>, ydata |-> <<y, y>>, label |-> line.label,
     color |-> line.color, linestyle |-> line.linestyle,
     linewidth |-> line.linewidth]

\* new_ax.axvline(x=..., color, linestyle, linewidth, label)
axvline(x, line) ==
    [xdata |-> <<x, x>>, ydata |-> <<0, 1>>, label |-> line.label,
     color |-> line.color, linestyle |-> line.linestyle,
     linewidth |-> line.linewidth]

\* new_ax.plot(xdata, ydata, label, color, linestyle)
plot(line) ==
    [xdata |-> line.xdata, ydata |-> line.ydata, label |-> line.label,
     color |-> line.color, linestyle |-> line.linestyle,
     linewidth |-> DefaultLineWidth]

\* the body of the loop of recover_Line2D for one line of old_ax
redraw_line(line) ==
    LET y_data == line.ydata
        x_data == line.xdata
    IN  IF Len(y_data) = 2
        THEN IF y_data[1] = Last(y_data) THEN axhline(y_data[1], line)
             ELSE IF x_data[1] = Last(x_data) THEN axvline(x_data[1], line)
             ELSE plot(line)
        ELSE plot(line)

\* recover_Line2D(old_ax, new_ax) on a new_ax without lines
recover_Line2D(lines) == [k \in 1..Len(lines) |-> redraw_line(lines[k])]

---------------------------------------------------------------------------
(* master_plot *)

\* master_plot saving the figure before the column titles are added
master_plot_saves_early ==
    <<"create_figure", "legends_only_last_subplot",
      "labels_only_last_subplot", "set_common_ylims", "set_common_xlims",
      "savefig", "add_column_titles", "align_ylabels", "return">>

\* The calls of master_plot in program order
master_plot ==
    <<"create_figure", "legends_only_last_subplot",
      "labels_only_last_subplot", "set_common_ylims", "set_common_xlims",
      "add_column_titles", "align_ylabels", "savefig", "return">>

\* the statement following call c
after(c) ==
    master_plot[1 + CHOOSE k \in DOMAIN master_plot : master_plot[k] = c]

\* Python's None, and the value of an argument no statement has read yet
NoneValue == "None"
Unread == "unread"
SavePlotsValues == {NoneValue, "", "plot"}

\* `if save_plots:` -- None and the empty string are false
truthy(v) == v # NoneValue /\ v # ""

\* list_sites: n distinct site names
Sites(n) == [c \in 1..n |-> "site" \o ToString(c)]

Idle == "idle"

Init ==
    /\ \E shape \in Shapes :
          mat_fig \in [1..shape[1] -> [1..shape[2] -> SrcFigures]]
    /\ \E n \in 1..MaxCells : list_sites = Sites(n)
    /\ fig = <<>>
    /\ tens = <<>>
    /\ pc = "create_figure"
    /\ calls = <<>>
    /\ save_plots = Unread
    /\ files = {}
    /\ old_lines = <<>>
    /\ new_lines = <<>>
    /\ lpc = Idle

line_vars == <<old_lines, new_lines, lpc>>
args == <<mat_fig, list_sites>>

\* fig, tens = create_figure(mat_fig, list_sites, pad)
CreateFigure ==
    /\ pc = "create_figure"
    /\ LET r == create_figure(mat_fig, list_sites)
       IN  /\ fig' = r.axes
           /\ tens' = r.tens
           /\ pc' = IF r.raised THEN "raised" ELSE after("create_figure")
           /\ calls' = IF r.raised THEN calls
                       ELSE Append(calls, "create_figure")
    /\ UNCHANGED <<args, save_plots, files, line_vars>>

\* a pass that cannot fail: fig = f(fig, ...)
Pass(name, result) ==
    /\ pc = name
    /\ fig' = result
    /\ pc' = after(name)
    /\ calls' = Append(calls, name)
    /\ UNCHANGED <<args, tens, save_plots, files, line_vars>>

LegendsOnlyLastSubplot ==
    Pass("legends_only_last_subplot", legends_only_last_subplot(fig, tens))

LabelsOnlyLastSubplot ==
    Pass("labels_only_last_subplot", labels_only_last_subplot(fig, tens))

\* fig = set_common_ylims(fig, tens); an exception ends master_plot
SetCommonYlims ==
    /\ pc = "set_common_ylims"
    /\ LET r == set_common_ylims(fig, tens)
       IN  /\ fig' = r.axes
           /\ pc' = IF r.raised THEN "raised" ELSE after("set_common_ylims")
           /\ calls' = IF r.raised THEN calls
                       ELSE Append(calls, "set_common_ylims")
    /\ UNCHANGED <<args, tens, save_plots, files, line_vars>>

SetCommonXlims(sharex) ==
    Pass("set_common_xlims", set_common_xlims(fig, tens, sharex))

AddColumnTitles ==
    Pass("add_column_titles", add_column_titles(fig, tens, list_sites))

AlignYlabels ==
    Pass("align_ylabels", align_ylabels(fig, tens))

\* if save_plots: fig.savefig(f'{save_plots}.pdf', bbox_inches='tight')
SaveFig(name) ==
    /\ pc = "savefig"
    /\ save_plots' = name
    /\ files' = IF truthy(name)
                THEN files \cup {[name |-> name \o ".pdf", content |-> fig,
                                  after |-> calls]}
                ELSE files
    /\ pc' = after("savefig")
    /\ calls' = Append(calls, "savefig")
    /\ UNCHANGED <<args, fig, tens, line_vars>>

Next ==
    \/ CreateFigure
    \/ LegendsOnlyLastSubplot
    \/ LabelsOnlyLastSubplot
    \/ SetCommonYlims
    \/ \E sharex \in SharexValues : SetCommonXlims(sharex)
    \/ AddColumnTitles
    \/ AlignYlabels
    \/ \E name \in SavePlotsValues : SaveFig(name)

Spec == Init /\ [][Next]_vars

(* The replotting of the lines of one source axes *)

InitLines ==
    /\ old_lines \in UNION {[1..n -> Line2D] : n \in 0..MaxLines}
    /\ new_lines = <<>>
    /\ lpc = "recover_Line2D"
    /\ mat_fig = <<>>
    /\ list_sites = <<>>
    /\ fig = <<>>
    /\ tens = <<>>
    /\ pc = Idle
    /\ calls = <<>>
    /\ save_plots = Unread
    /\ files = {}

RecoverLine2D ==
    /\ lpc = "recover_Line2D"
    /\ new_lines' = recover_Line2D(old_lines)
    /\ lpc' = "done"
    /\ UNCHANGED <<args, fig, tens, pc, calls, save_plots, files, old_lines>>

NextLines == RecoverLine2D

SpecLines == InitLines /\ [][NextLines]_vars

---------------------------------------------------------------------------
(* Properties *)

Returned(call) == call \in Range(calls)
\* the grid passed in has as many columns as there are column labels
Matched == Len(mat_fig[1]) = Len(list_sites)
\* the axes numbers listed in row r of the grid index
RowAxes(r) == Range(Flat(tens[r]))
\* the axes numbers listed in column c of the grid index
ColAxes(c) == UNION {Range(tens[r][c]) : r \in 1..Len(tens)}
\* the x limits of the axes of all source figures
SrcXlims ==
    UNION {UNION {{a.xlim : a \in Range(f)} : f \in Range(row)} :
           row \in Range(mat_fig)}
Layout ==
    {"legends_only_last_subplot", "labels_only_last_subplot",
     "set_common_ylims", "set_common_xlims", "add_column_titles",
     "align_ylabels"}

\* C1: when mat_fig has R rows and C = len(list_sites) columns, the grid
\* index returned by create_figure has R rows of C cells, and cell
\* tens[r][c] is the non-empty, duplicate-free list of exactly the axes
\* created while mat_fig[r][c] was redrawn.
C1_GridIndex ==
    (Returned("create_figure") /\ Matched) =>
        /\ Len(tens) = Len(mat_fig)
        /\ \A r \in 1..Len(tens) :
            /\ Len(tens[r]) = Len(mat_fig[1])
            /\ \A c \in 1..Len(tens[r]) :
                /\ tens[r][c] # <<>>
                /\ Cardinality(Range(tens[r][c])) = Len(tens[r][c])
                /\ Range(tens[r][c]) =
                     {n \in 0..(Len(fig) - 1) : fig[n + 1].drawn_for = <<r, c>>}

\* a grid of two different rows, two columns, a cell of several axes
C1_Witness ==
    /\ Returned("create_figure") /\ Matched
    /\ Len(mat_fig) >= 2 /\ Len(mat_fig[1]) >= 2
    /\ mat_fig[1] # mat_fig[2]
    /\ \E r \in 1..Len(tens) : \E c \in 1..Len(tens[r]) : Len(tens[r][c]) >= 2
    /\ \E r \in 1..Len(tens) : \E c \in 1..Len(tens[r]) : Len(tens[r][c]) = 1

\* C2: set_common_ylims completes on every grid index of create_figure and
\* gives the j-th axes of all cells of a row the limits (minimum of their
\* lower limits, maximum of their upper limits) they had before the call.
C2_CommonYlims ==
    [][SetCommonYlims =>
        /\ pc' # "raised"
        /\ \A r \in 1..Len(tens) : \A c \in 1..Len(tens[r]) :
             \A j \in 1..Len(tens[r][c]) :
                LET same == {tens[r][d][j] :
                               d \in {e \in 1..Len(tens[r]) :
                                        j <= Len(tens[r][e])}}
                IN  fig'[tens[r][c][j] + 1].ylim =
                      <<Min({fig[n + 1].ylim[1] : n \in same}),
                        Max({fig[n + 1].ylim[2] : n \in same})>>]_vars

\* C3: with sharex True or 'all', set_common_xlims gives every axes of the
\* figure the limits (minimum lower x limit, maximum upper x limit) over all
\* axes of the figure before the call.
C3_ShareAll ==
    [][\A sharex \in {"True", "all"} :
        SetCommonXlims(sharex) =>
            \A k \in 1..Len(fig) :
                fig'[k].xlim =
                    <<Min({fig[q].xlim[1] : q \in 1..Len(fig)}),
                      Max({fig[q].xlim[2] : q \in 1..Len(fig)})>>]_vars

\* all axes of a 2 x 2 (or larger) grid agree on x limits that no single
\* source axes had, twin axes among them
C3_Witness ==
    /\ pc = "add_column_titles"
    /\ Len(tens) >= 2 /\ Len(tens[1]) >= 2
    /\ \E k \in 1..Len(fig) : fig[k].sharey # k - 1
    /\ \E k \in 1..Len(fig) : fig[k].sharex # k - 1
    /\ Cardinality({fig[k].xlim : k \in 1..Len(fig)}) = 1
    /\ fig[1].xlim \notin SrcXlims

\* C4: with sharex 'row' (respectively 'col'), set_common_xlims gives all
\* axes of a grid row (respectively column) the limits (minimum lower,
\* maximum upper x limit) over the axes of that row (respectively column)
\* before the call, whatever the other rows (columns) hold.
C4_ShareRowCol ==
    [][/\ SetCommonXlims("row") =>
            \A r \in 1..Len(tens) : \A n \in RowAxes(r) :
                fig'[n + 1].xlim =
                    <<Min({fig[q + 1].xlim[1] : q \in RowAxes(r)}),
                      Max({fig[q + 1].xlim[2] : q \in RowAxes(r)})>>
       /\ SetCommonXlims("col") =>
            \A c \in 1..Len(tens[1]) : \A n \in ColAxes(c) :
                fig'[n + 1].xlim =
                    <<Min({fig[q + 1].xlim[1] : q \in ColAxes(c)}),
                      Max({fig[q + 1].xlim[2] : q \in ColAxes(c)})>>]_vars

\* two columns, each with one common x range over its two rows, the ranges
\* of the two columns differing and the rows not uniform
C4_Witness ==
    /\ pc = "add_column_titles"
    /\ Len(tens) >= 2 /\ Len(tens[1]) >= 2
    /\ \A c \in 1..2 : Cardinality({fig[n + 1].xlim : n \in ColAxes(c)}) = 1
    /\ fig[tens[1][1][1] + 1].xlim # fig[tens[1][2][1] + 1].xlim
    /\ fig[tens[1][1][1] + 1].xlim \notin SrcXlims

\* C5: after legends_only_last_subplot, in every row of tens the last axes
\* of the last cell carries a legend and no other axes of the row does.
C5_Legends ==
    Returned("legends_only_last_subplot") =>
        \A r \in 1..Len(tens) : \A n \in RowAxes(r) :
            fig[n + 1].legend.shown <=> n = Last(Last(tens[r]))

\* a row of several cells whose last cell holds several axes
C5_Witness ==
    /\ Returned("legends_only_last_subplot")
    /\ \E r \in 1..Len(tens) :
        /\ Len(tens[r]) >= 2
        /\ Len(Last(tens[r])) >= 2
        /\ Len(tens[r][1]) >= 2
        /\ fig[Last(Last(tens[r])) + 1].legend.handles = Last(tens[r])

\* an axes shows a y label or y tick labels
ShowsYLabels(a) == a.ylabel # "" \/ a.yticklabels

\* C6: after labels_only_last_subplot, an axes that still shows a y label or
\* y tick labels is in the first or the last cell of its row: the first
\* (left) axes of a cell only in the first cell, the further (twin) axes of
\* a cell only in the last cell.
C6_Labels ==
    Returned("labels_only_last_subplot") =>
        \A r \in 1..Len(tens) : \A c \in 1..Len(tens[r]) :
            \A k \in 1..Len(tens[r][c]) :
                ShowsYLabels(fig[tens[r][c][k] + 1]) =>
                    /\ c = 1 \/ c = Len(tens[r])
                    /\ k = 1 => c = 1
                    /\ k > 1 => c = Len(tens[r])

\* the first axes of the cells of the top row of the grid index
TopFirst == {tens[1][c][1] : c \in 1..Len(tens[1])}

\* C7: for a grid with one label per column, after master_plot the first
\* axes of tens[0][c] is titled list_sites[c]; tens[0] is the row drawn at
\* the top (largest bottom offset) and holds the figures of the first row of
\* mat_fig; add_column_titles changes no other title.
C7_ColumnTitles ==
    /\ [](pc = "return" /\ Matched =>
            /\ \A c \in 1..Len(tens[1]) :
                /\ fig[tens[1][c][1] + 1].title = list_sites[c]
                /\ \A n \in Range(tens[1][c]) :
                    /\ fig[n + 1].drawn_for = <<1, c>>
                    /\ \A k \in 1..Len(fig) :
                          fig[k].position[2] <= fig[n + 1].position[2]
            /\ \A r \in 2..Len(tens) : \A n \in RowAxes(r) : \A m \in RowAxes(1) :
                  fig[n + 1].position[2] < fig[m + 1].position[2])
    /\ [][AddColumnTitles /\ Matched =>
            \A k \in 1..Len(fig) :
                (k - 1) \notin TopFirst => fig'[k].title = fig[k].title]_vars

\* master_plot returned a grid of two different rows and two columns
C7_Witness ==
    /\ pc = "return" /\ Matched
    /\ Len(tens) >= 2 /\ Len(tens[1]) >= 2
    /\ mat_fig[1] # mat_fig[2]
    /\ Len(tens[1][1]) >= 2
    /\ fig[tens[2][1][1] + 1].title = SrcTitle

\* C8: a grid whose number of columns differs from len(list_sites) makes
\* create_figure raise: no figure and no grid index are returned.
C8_MismatchRaises ==
    (pc # "create_figure" /\ ~Matched) => ~Returned("create_figure")

\* C9: when master_plot returns, '<save_plots>.pdf' has been written if and
\* only if a name was passed; it was written after all six layout passes
\* and holds the figure that is returned.
C9_SavePlots ==
    /\ pc = "return" =>
        IF save_plots \notin {NoneValue, ""}
        THEN /\ Cardinality(files) = 1
             /\ \A f \in files :
                  /\ f.name = save_plots \o ".pdf"
                  /\ f.content = fig
        ELSE files = {}
    /\ \A f \in files : Layout \subseteq Range(f.after)
    /\ pc = "raised" => files = {}

\* a file was written for a figure whose titles and limits the passes changed
C9_Witness ==
    /\ pc = "return"
    /\ files # {}
    /\ Len(tens) >= 2
    /\ \E k \in 1..Len(fig) : fig[k].title \in Range(list_sites)
    /\ \E k \in 1..Len(fig) : ~fig[k].legend.shown

\* C10: recover_Line2D draws one line per source line, with the same x data,
\* y data, label, color and linestyle.
C10_LinesIdentical ==
    lpc = "done" =>
        /\ Len(new_lines) = Len(old_lines)
        /\ \A k \in 1..Len(old_lines) :
            /\ new_lines[k].xdata = old_lines[k].xdata
            /\ new_lines[k].ydata = old_lines[k].ydata
            /\ new_lines[k].label = old_lines[k].label
            /\ new_lines[k].color = old_lines[k].color
            /\ new_lines[k].linestyle = old_lines[k].linestyle

=============================================================================
